---- MODULE Spec2Model ----
(***************************************************************************)
(* SU(4) -> SU(2)xSU(2) branching rules (su4_branching.py) and the CLI     *)
(* adapters that turn U(6)/U(10) occupation labels into SU(4) labels       *)
(* (su4_cli.py).                                                           *)
(*                                                                         *)
(* Representation of numbers.  The program computes p1, p2, p3, the kernel *)
(* arguments, the multiplicity and the dimensions in binary floating point *)
(* and every such value is a multiple of 1/2 (divisions are by 2. only,    *)
(* applied to integers).  A value x of that kind is represented here by    *)
(* the integer 2*x ("doubled units"); the operators that model int(),      *)
(* Q(), /2. and /12. compute on that representation what the program       *)
(* computes on the float, truncation included.  Values that the program    *)
(* holds as integers (f1..f4, alpha, beta, gamma, table columns mult, dim, *)
(* cum) are plain integers.  The Spin and Isospin columns are kept in      *)
(* doubled units (1 stands for 1/2, 2 for 1).                              *)
(***************************************************************************)
EXTENDS Integers, Sequences, FiniteSets, TLC

\* ---------------------------------------------------------------- bounds
MaxF == 4       \* largest entry of a label handed directly to the core
MaxNeg == 1     \* entries of direct labels / occupation labels go down to -MaxNeg
MaxU == 5       \* largest entry of a U(6)/U(10) occupation label
MaxArgs == 5    \* largest number of integers given after --custom-su4
MaxK == 460     \* get_su4_dimension is called on (3k,2k,k,0), k = 0..MaxK
MaxB == 1       \* largest entry of a label in a batch export
MaxBatch == 2   \* largest length of irrep_list in a batch export

\* ------------------------------------------------------ program constants
\* variant: the Pauli limit is one too high
PauliMax_Five == 4 + 1

PauliMax == 4
U6Len == 6
U10Len == 10

FRange == (0 - MaxNeg)..MaxF
\* ------------------------------------------------------------ arithmetic
Abs(x) == IF x < 0 THEN 0 - x ELSE x

Max(a, b) == IF a >= b THEN a ELSE b

\* int() of a float given in doubled units: truncation toward zero
IntOf(x) == IF x >= 0 THEN x \div 2 ELSE 0 - ((0 - x) \div 2)

\* ------------------------------------------------- label transformer
\* variant: the middle comparison is left out
ValidOrder_NoMiddle(f1, f2, f3, f4) == ~((f4 > f3) \/ (f2 > f1))

\* line 45, negated: TRUE when the tableau check passes
ValidOrder(f1, f2, f3, f4) == ~((f4 > f3) \/ (f3 > f2) \/ (f2 > f1))

\* variant: the third factor has 2 where the formula has 3
dimsu4Num_Plus2(f1, f2, f3, f4) ==
    (f1-f2+1)*(f1-f3+2)*(f1-f4+2)*(f2-f3+1)*(f2-f4+2)*(f3-f4+1)

\* variant: the third factor is written for f4 = 0
dimsu4Num_NoF4(f1, f2, f3, f4) ==
    (f1-f2+1)*(f1-f3+2)*(f1+3)*(f2-f3+1)*(f2-f4+2)*(f3-f4+1)

\* numerator of dimsu4; the program divides it by 12. (float)
dimsu4Num(f1, f2, f3, f4) ==
    (f1-f2+1)*(f1-f3+2)*(f1-f4+3)*(f2-f3+1)*(f2-f4+2)*(f3-f4+1)

\* int(dimsu4(f1,f2,f3,f4)): truncation toward zero of numerator/12
IntDimsu4(f1, f2, f3, f4) ==
    LET n == dimsu4Num(f1, f2, f3, f4)
    IN  IF n >= 0 THEN n \div 12 ELSE 0 - ((0 - n) \div 12)

\* ----------------------------------------------- float64 arithmetic
\* Values above 2^31 are held as little-endian sequences of limbs in base
\* LimbBase (no leading zero limb, zero is <<>>), so that the rounding of
\* the float64 division `product/12.` can be computed as IEEE 754 does it.
LimbBits == 10
LimbBase == 1024
Mantissa == 53      \* significand bits of a float64
GuardLimbs == 6     \* 60 guard bits kept below the quotient before rounding

RECURSIVE Pow2(_)
Pow2(n) == IF n = 0 THEN 1 ELSE 2 * Pow2(n - 1)

RECURSIVE BigOf(_)
BigOf(n) == IF n = 0 THEN <<>> ELSE <<n % LimbBase>> \o BigOf(n \div LimbBase)

RECURSIVE BigMul(_, _, _)
\* a * n + carry, n < 2^12
BigMul(a, n, carry) ==
    IF a = <<>> THEN BigOf(carry)
    ELSE LET v == a[1] * n + carry
         IN  <<v % LimbBase>> \o BigMul(Tail(a), n, v \div LimbBase)

RECURSIVE BigStrip(_)
BigStrip(a) ==
    IF a = <<>> THEN a
    ELSE IF a[Len(a)] = 0 THEN BigStrip(SubSeq(a, 1, Len(a) - 1)) ELSE a

RECURSIVE BigDivStep(_, _, _, _, _)
BigDivStep(a, n, i, rem, acc) ==
    IF i = 0 THEN [q |-> BigStrip(acc), r |-> rem]
    ELSE LET cur == rem * LimbBase + a[i]
         IN  BigDivStep(a, n, i - 1, cur % n, <<cur \div n>> \o acc)

\* quotient and remainder of a by n, 0 < n < 2^12
BigDivMod(a, n) == BigDivStep(a, n, Len(a), 0, <<>>)

RECURSIVE BigInc(_)
BigInc(a) ==
    IF a = <<>> THEN <<1>>
    ELSE IF a[1] + 1 < LimbBase THEN <<a[1] + 1>> \o Tail(a)
         ELSE <<0>> \o BigInc(Tail(a))

RECURSIVE SmallBitLen(_)
SmallBitLen(n) == IF n = 0 THEN 0 ELSE 1 + SmallBitLen(n \div 2)

BitLen(a) ==
    IF a = <<>> THEN 0 ELSE (Len(a) - 1) * LimbBits + SmallBitLen(a[Len(a)])

\* a shifted right by n bits, and whether a nonzero part was shifted out
BigShr(a, n) ==
    LET k == n \div LimbBits
        low == SubSeq(a, 1, IF k < Len(a) THEN k ELSE Len(a))
        high == IF k < Len(a) THEN SubSeq(a, k + 1, Len(a)) ELSE <<>>
        d == BigDivMod(high, Pow2(n % LimbBits))
    IN  [q |-> d.q,
         lost |-> d.r # 0 \/ \E i \in 1..Len(low) : low[i] # 0]

\* a shifted left by n bits
BigShl(a, n) ==
    IF a = <<>> THEN a
    ELSE [i \in 1..(n \div LimbBits) |-> 0] \o BigMul(a, Pow2(n % LimbBits), 0)

\* round-to-nearest-even of the value a (+ a nonzero fraction if sticky) to
\* Mantissa significant bits
RoundSig(a, sticky) ==
    LET sh == BitLen(a) - Mantissa
    IN  IF sh <= 0 THEN a
        ELSE LET h == BigShr(a, sh - 1)
                 roundbit == h.q[1] % 2 = 1
                 q == BigShr(h.q, 1).q
                 up == roundbit /\ (h.lost \/ sticky \/ q[1] % 2 = 1)
             IN  BigShl(IF up THEN BigInc(q) ELSE q, sh)

\* the int product of line 214 / line 62 (Python int, exact)
BigProduct(f1, f2, f3, f4) ==
    BigMul(BigMul(BigMul(BigMul(BigMul(BigOf(f1-f2+1), f1-f3+2, 0),
           f1-f4+3, 0), f2-f3+1, 0), f2-f4+2, 0), f3-f4+1, 0)

\* int(product/12.): the product is converted to float64, divided by 12.0
\* with one rounding, and truncated
Float64Dimension(f1, f2, f3, f4) ==
    LET x == RoundSig(BigProduct(f1, f2, f3, f4), FALSE)
        d == BigDivMod([i \in 1..GuardLimbs |-> 0] \o x, 12)
        y == RoundSig(d.q, d.r # 0)
    IN  IF x = <<>> THEN <<>>
        ELSE BigStrip(SubSeq(y, GuardLimbs + 1, Len(y)))

\* validate_young_tableau, line 194
validate_young_tableau(f1, f2, f3, f4) == f1 >= f2 /\ f2 >= f3 /\ f3 >= f4

\* get_su4_dimension, lines 211-214; the value is held as limbs
get_su4_dimension(f1, f2, f3, f4) ==
    IF ~validate_young_tableau(f1, f2, f3, f4)
    THEN [err |-> "ValueError", value |-> <<>>]
    ELSE [err |-> "none", value |-> Float64Dimension(f1, f2, f3, f4)]

cas2su4(a, b, c) ==
    3*a*(a+4) + 4*b*(b+4) + 3*c*(c+4) + 4*b*(a+c) + 2*a*c

\* get_casimir_su4, lines 231-239.  The computation and the return are
\* indented under the `if`, after the raise, so they never run: an invalid
\* label raises and a valid one falls off the end and returns None.
\* none = TRUE stands for the returned None (value is then not meaningful).
get_casimir_su4(f1, f2, f3, f4) ==
    IF ~validate_young_tableau(f1, f2, f3, f4)
    THEN [err |-> "ValueError", none |-> FALSE, value |-> 0]
    ELSE [err |-> "none", none |-> TRUE, value |-> 0]

\* variant: f4 enters p3 with the wrong sign
Coords_P3Minus(f1, f2, f3, f4) ==
    LET q1 == f1 + f2 - f3 - f4
        q2 == f1 - f2 + f3 - f4
        q3 == f1 - f2 - f3 - f4
    IN  [alpha |-> f1 - f2, beta |-> f2 - f3, gamma |-> f3 - f4,
         p1 |-> q1, p2 |-> q2, p3 |-> q3,
         max_st |-> Max(q1, q2),
         min_st |-> IF q1 % 2 = 0 THEN 0 ELSE 1]

\* lines 48-58 and 86-90: (alpha,beta,gamma), (p1,p2,p3) in doubled units,
\* the loop cap and the parity class (min_st is 0 or 1, i.e. 0.0 or 0.5)
Coords(f1, f2, f3, f4) ==
    LET q1 == f1 + f2 - f3 - f4
        q2 == f1 - f2 + f3 - f4
        q3 == f1 - f2 - f3 + f4
    IN  [alpha |-> f1 - f2, beta |-> f2 - f3, gamma |-> f3 - f4,
         p1 |-> q1, p2 |-> q2, p3 |-> q3,
         max_st |-> Max(q1, q2),
         min_st |-> IF q1 % 2 = 0 THEN 0 ELSE 1]

\* lines 78-84: the row of the info table
InfoRow(f1, f2, f3, f4) ==
    LET c == Coords(f1, f2, f3, f4)
    IN  [f1 |-> f1, f2 |-> f2, f3 |-> f3, f4 |-> f4,
         p1 |-> c.p1, p2 |-> c.p2, p3 |-> c.p3,
         alpha |-> c.alpha, beta |-> c.beta, gamma |-> c.gamma,
         casimir |-> cas2su4(c.alpha, c.beta, c.gamma),
         dimension |-> IntDimsu4(f1, f2, f3, f4)]

\* ------------------------------------------------- multiplicity kernel
\* Q(x), x in doubled units: int(x**2/4.) if x > 0 else 0
Q(x) == IF x > 0 THEN (x * x) \div 16 ELSE 0

\* variant: the last Q term is not halved
WTS_NoHalf(w1, w2, T, S) ==
    IF 2*T <= w1 + w2 /\ 2*S <= w1 + w2 /\ w1 >= w2
    THEN 2*Q(w2 + 4 - Abs(T - S)) - 2*Q(w2 + 2 - T - S)
         + 2*Q(T + S - w1 - 2) - 2*Q(T + S - Abs(T - S) - w1 + w2 + 2)
    ELSE 0

\* variant: T - S is used without its absolute value
WTS_NoAbs(w1, w2, T, S) ==
    IF 2*T <= w1 + w2 /\ 2*S <= w1 + w2 /\ w1 >= w2
    THEN 2*Q(w2 + 4 - (T - S)) - 2*Q(w2 + 2 - T - S)
         + 2*Q(T + S - w1 - 2) - Q(T + S - (T - S) - w1 + w2 + 2)
    ELSE 0

\* variant: the formula is evaluated outside its range of validity too
WTS_NoGuard(w1, w2, T, S) ==
    2*Q(w2 + 4 - Abs(T - S)) - 2*Q(w2 + 2 - T - S)
    + 2*Q(T + S - w1 - 2) - Q(T + S - Abs(T - S) - w1 + w2 + 2)

\* WTS(w1,w2,T,S), all arguments and the result in doubled units
WTS(w1, w2, T, S) ==
    IF 2*T <= w1 + w2 /\ 2*S <= w1 + w2 /\ w1 >= w2
    THEN 2*Q(w2 + 4 - Abs(T - S)) - 2*Q(w2 + 2 - T - S)
         + 2*Q(T + S - w1 - 2) - Q(T + S - Abs(T - S) - w1 + w2 + 2)
    ELSE 0

\* Multi(p1,p2,p3,T,S), all arguments and the result in doubled units
Multi(q1, q2, q3, T, S) ==
    WTS(q1 + Abs(q3), q1 - Abs(q3), T, S)
    - WTS(q1 + q2 + 2, q1 - q2 - 2, T, S)
    - WTS(q2 + Abs(q3) - 2, q2 - Abs(q3) - 2, T, S)

\* variant: the two "+ 1." are missing
dimST_NoPlusOne(S, T, mult) == S * T * mult

\* dimST(S,T,mult): (2S+1)(2T+1)*mult; S, T, mult and result doubled
dimST(S, T, mult) == (S + 1) * (T + 1) * mult

\* ------------------------------------------------- enumeration bodies
\* One branching row.  Spin/Isospin in doubled units; mult, dim, cum are the
\* int() of the floats the program holds.
Row(Sp, Iso, mult, dim_st, total) ==
    [Spin |-> Sp, Isospin |-> Iso, mult |-> IntOf(mult), dim |-> dim_st,
     cum |-> IntOf(total)]

\* body of the integer loop (lines 122-126) for the pair (Sv,Tv);
\* st = [rows, sum] is (ST_irreps, sum_dim_st) before, the result is after
IntBody(q1, q2, q3, Sv, Tv, st) ==
    LET mult == Multi(q1, q2, q3, 2*Tv, 2*Sv)
    IN  IF mult # 0
        THEN LET dim_st == IntOf(dimST(2*Sv, 2*Tv, mult))
                 total == st.sum + dimST(2*Sv, 2*Tv, mult)
             IN  [rows |-> Append(st.rows, Row(2*Sv, 2*Tv, mult, dim_st, total)),
                  sum |-> total]
        ELSE st

\* variant: the row is appended whatever the multiplicity
HalfBody_NoFilter(q1, q2, q3, Sv, Tv, st) ==
    LET mult == Multi(q1, q2, q3, Tv, Sv)
        dim_st == IntOf(dimST(Sv, Tv, mult))
        total == st.sum + dimST(Sv, Tv, mult)
    IN  [rows |-> Append(st.rows, Row(Sv, Tv, mult, dim_st, total)),
         sum |-> total]

\* body of the half-integer loop (lines 130-135); Sv, Tv are the doubled
\* loop variables, the program passes Sv/2. and Tv/2.
HalfBody(q1, q2, q3, Sv, Tv, st) ==
    LET mult == Multi(q1, q2, q3, Tv, Sv)
        dim_st == IntOf(dimST(Sv, Tv, mult))
        total == st.sum + dimST(Sv, Tv, mult)
    IN  IF mult # 0
        THEN [rows |-> Append(st.rows, Row(Sv, Tv, mult, dim_st, total)),
              sum |-> total]
        ELSE [rows |-> st.rows, sum |-> total]

\* range(lo, stop, step) bounds of the two loops
IntLo(mn) == IntOf(mn)
IntStop(mx) == IntOf(mx) + 1
\* variant: the half-integer range starts at 0
HalfLo_Zero(mn) == 0

HalfLo(mn) == mn
HalfStop(mx) == mx + 2

RECURSIVE EnumInt(_, _, _, _)
\* the integer loops of lines 120-126 run from the pair (Sv,Tv) to the end
EnumInt(c, Sv, Tv, st) ==
    IF Sv >= IntStop(c.max_st) \/ Tv >= IntStop(c.max_st) THEN st
    ELSE LET st2 == IntBody(c.p1, c.p2, c.p3, Sv, Tv, st)
         IN  IF Tv + 1 < IntStop(c.max_st)
             THEN EnumInt(c, Sv, Tv + 1, st2)
             ELSE EnumInt(c, Sv + 1, IntLo(c.min_st), st2)

RECURSIVE EnumHalf(_, _, _, _)
\* the half-integer loops of lines 128-135 run from (Sv,Tv) to the end
EnumHalf(c, Sv, Tv, st) ==
    IF Sv >= HalfStop(c.max_st) \/ Tv >= HalfStop(c.max_st) THEN st
    ELSE LET st2 == HalfBody(c.p1, c.p2, c.p3, Sv, Tv, st)
         IN  IF Tv + 2 < HalfStop(c.max_st)
             THEN EnumHalf(c, Sv, Tv + 2, st2)
             ELSE EnumHalf(c, Sv + 2, HalfLo(c.min_st), st2)

\* lines 116-135 as a whole: the branching rows for a label that passed
\* the tableau check
Enumerate(f1, f2, f3, f4) ==
    LET c == Coords(f1, f2, f3, f4)
        st0 == [rows |-> <<>>, sum |-> 0]
    IN  IF c.min_st = 0
        THEN EnumInt(c, IntLo(c.min_st), IntLo(c.min_st), st0).rows
        ELSE EnumHalf(c, HalfLo(c.min_st), HalfLo(c.min_st), st0).rows

\* ------------------------------------------------------------- adapter
\* current[current > 0] - 1
DropColumn(cur) ==
    LET pos == SelectSeq(cur, LAMBDA x : x > 0)
    IN  [i \in 1..Len(pos) |-> pos[i] - 1]

\* np.count_nonzero(current)
CountNonzero(cur) == Len(SelectSeq(cur, LAMBDA x : x # 0))

\* np.any(current > 0)
AnyPositive(cur) == \E i \in 1..Len(cur) : cur[i] > 0

\* variant: the last element is dropped but not subtracted
StripLast_NoSubtract(l) == [i \in 1..(Len(l) - 1) |-> l[i]]

\* [x - last_element for x in su4_irrep[:-1]]
StripLast(l) ==
    LET last_element == l[Len(l)]
    IN  [i \in 1..(Len(l) - 1) |-> l[i] - last_element]

\* su4_irrep.extend([0] * (4 - len(su4_irrep))) followed by su4_irrep[:4]
PadTo4(l) == [i \in 1..4 |-> IF i <= Len(l) THEN l[i] ELSE 0]

\* list(u) != sorted(u, reverse=True)
IsNonIncreasing(u) == \A i \in 1..(Len(u) - 1) : u[i] >= u[i+1]

RECURSIVE NonIncSeqs(_, _)
\* the non-increasing sequences of length n with entries in -MaxNeg..hi
NonIncSeqs(n, hi) ==
    IF n = 0 THEN {<<>>}
    ELSE UNION {{<<v>> \o s : s \in NonIncSeqs(n - 1, v)} : v \in (0 - MaxNeg)..hi}

Reverse(u) == [i \in 1..Len(u) |-> u[Len(u) + 1 - i]]

\* occupation labels tried: every non-increasing one and its reversal
ULabels(n) == LET ni == NonIncSeqs(n, MaxU) IN ni \cup {Reverse(u) : u \in ni}

U6Labels == ULabels(U6Len)

U10Labels == ULabels(U10Len)

\* ---------------------------------------------------------------- state
VARIABLES
    pc,          \* control point of the running call
    entry,       \* which caller runs: "none", "su4", "sd", "pf"
    err,         \* exception raised, "none" if none
    u_irrep,     \* argument of u6_to_su4_irrep / u10_to_su4_irrep
    current,     \* adapter: the array being stripped column by column
    su4_irrep,   \* adapter: the list of column heights
    f,           \* the arguments (f1,f2,f3,f4) of racah_su4_to_st, <<>> before the call
    alpha, beta, gamma,
    p1, p2, p3,  \* doubled units
    max_st, min_st,   \* doubled units
    SU4_irrep,   \* list of info rows (one record once appended)
    S, T,        \* loop variables, as the program holds them
    ST_irreps,   \* list of branching rows
    sum_dim_st,  \* doubled units
    su4_df, irreps_df,   \* the DataFrames racah_su4_to_st builds
    built,       \* TRUE once both DataFrames are constructed
    dim_checked, \* TRUE once sum_dim_st has been compared with the dimension
                 \* (no statement of racah_su4_to_st does that)
    verbose,     \* the verbose argument of racah_su4_to_st
    display_defined,  \* whether the name `display` resolves (it is a builtin
                      \* under IPython/Jupyter only; the module never imports it)
    argc,        \* number of integers given after --custom-su4
    rendered,    \* TRUE once the CLI printed the branching table
    exit_code,   \* process exit status, -1 while the process runs
    legacy_ret,  \* <<table>> once RacahSU4toST returned a table, else <<>>
    dim_ret,     \* the value get_su4_dimension returned, as limbs
    irrep_list,  \* argument of export_multiple_representations
    batch_i,     \* number of items of irrep_list the loop has taken
    results,     \* the dict label -> files of export_multiple_representations
    successful,  \* its two counters
    failed,
    outcomes     \* per item taken, whether its export returned ("ok") or
                 \* raised ("failed"); kept for the properties only

adapterVars == <<u_irrep, current, su4_irrep>>

derivedVars == <<alpha, beta, gamma, p1, p2, p3, max_st, min_st, SU4_irrep>>

loopVars == <<S, T, ST_irreps, sum_dim_st>>

frameVars == <<su4_df, irreps_df, built, dim_checked>>

coreVars == <<f, derivedVars, loopVars, frameVars>>

batchVars == <<irrep_list, batch_i, results, successful, failed, outcomes>>

callerVars == <<verbose, display_defined, argc, rendered, exit_code, legacy_ret,
               dim_ret, batchVars>>

vars == <<pc, entry, err, adapterVars, coreVars, callerVars>>

Init ==
    /\ pc = "start"
    /\ entry = "none"
    /\ err = "none"
    /\ u_irrep = <<>> /\ current = <<>> /\ su4_irrep = <<>>
    /\ f = <<>>
    /\ alpha = 0 /\ beta = 0 /\ gamma = 0
    /\ p1 = 0 /\ p2 = 0 /\ p3 = 0
    /\ max_st = 0 /\ min_st = 0
    /\ SU4_irrep = <<>>
    /\ S = 0 /\ T = 0
    /\ ST_irreps = <<>>
    /\ sum_dim_st = 0
    /\ su4_df = <<>> /\ irreps_df = <<>>
    /\ built = FALSE
    /\ dim_checked = FALSE
    /\ verbose = FALSE
    /\ display_defined = FALSE
    /\ argc = 0
    /\ rendered = FALSE
    /\ exit_code = 0 - 1
    /\ legacy_ret = <<>>
    /\ dim_ret = <<>>
    /\ irrep_list = <<>>
    /\ batch_i = 0
    /\ results = <<>>
    /\ successful = 0
    /\ failed = 0
    /\ outcomes = <<>>

\* ------------------------------------------------------------ callers
\* main, lines 395-404, and run_custom(f1,f2,f3,f4): --custom-su4 with 3
\* or 4 integers (f4 = 0 when 3 are given) hands the label to the core
\* (verbose=False, so lines 146-150 of the core are skipped)
run_custom ==
    /\ pc = "start"
    /\ \E n \in {3, 4}, a \in FRange, b \in FRange, c \in FRange, d \in FRange :
          /\ (n = 3 => d = 0)
          /\ argc' = n
          /\ f' = <<a, b, c, d>>
    /\ entry' = "su4"
    /\ verbose' = FALSE
    /\ pc' = "core_validate"
    /\ UNCHANGED <<err, adapterVars, derivedVars, loopVars, frameVars,
                   display_defined, rendered, exit_code, legacy_ret, dim_ret,
                   batchVars>>

\* main, lines 330-333 and 395-399: --custom-su4 with another number of
\* integers.  With none, argparse (nargs='+') ends the process with status
\* 2; with 1, 2 or more than 4 main prints the message and returns 1.
main_bad_count ==
    /\ pc = "start"
    /\ \E n \in (0..MaxArgs) \ {3, 4} :
          /\ argc' = n
          /\ exit_code' = IF n = 0 THEN 2 ELSE 1
    /\ entry' = "su4"
    /\ pc' = "exited"
    /\ UNCHANGED <<err, adapterVars, coreVars, verbose, display_defined,
                   rendered, legacy_ret, dim_ret,
                   batchVars>>

\* run_custom_sd(u6_irrep): adapter first, then the core
run_custom_sd ==
    /\ pc = "start"
    /\ \E u \in U6Labels : u_irrep' = u
    /\ entry' = "sd"
    /\ verbose' = FALSE
    /\ pc' = "u_validate"
    /\ UNCHANGED <<err, current, su4_irrep, coreVars, display_defined, argc,
                   rendered, exit_code, legacy_ret, dim_ret,
                   batchVars>>

\* run_custom_pf(u10_irrep): adapter first, then the core
run_custom_pf ==
    /\ pc = "start"
    /\ \E u \in U10Labels : u_irrep' = u
    /\ entry' = "pf"
    /\ verbose' = FALSE
    /\ pc' = "u_validate"
    /\ UNCHANGED <<err, current, su4_irrep, coreVars, display_defined, argc,
                   rendered, exit_code, legacy_ret, dim_ret,
                   batchVars>>

\* ------------------------------------------------------------ adapter
\* the three checks that open u6_to_su4_irrep / u10_to_su4_irrep, in the
\* program's order, then current = np.array(u), su4_irrep = []
AdapterValidate(e, n) ==
    /\ pc = "u_validate" /\ entry = e
    /\ IF Len(u_irrep) # n \/ \E i \in 1..Len(u_irrep) : u_irrep[i] < 0
       THEN pc' = "done" /\ err' = "SymmetryError_input"
                         /\ UNCHANGED <<current, su4_irrep>>
       ELSE IF ~IsNonIncreasing(u_irrep)
       THEN pc' = "done" /\ err' = "SymmetryError_order"
                         /\ UNCHANGED <<current, su4_irrep>>
       ELSE IF u_irrep[1] > PauliMax
       THEN pc' = "done" /\ err' = "SymmetryError_pauli"
                         /\ UNCHANGED <<current, su4_irrep>>
       ELSE pc' = "u_conj" /\ err' = err /\ current' = u_irrep
                           /\ su4_irrep' = <<>>
    /\ UNCHANGED <<entry, u_irrep, coreVars, callerVars>>

u6_validate == AdapterValidate("sd", U6Len)

u10_validate == AdapterValidate("pf", U10Len)

\* one test of `while np.any(current > 0)` and, if it holds, one iteration
AdapterConj(e) ==
    /\ pc = "u_conj" /\ entry = e
    /\ IF AnyPositive(current)
       THEN /\ su4_irrep' = Append(su4_irrep, CountNonzero(current))
            /\ current' = DropColumn(current)
            /\ pc' = pc
       ELSE /\ pc' = "u_simplify"
            /\ UNCHANGED <<current, su4_irrep>>
    /\ UNCHANGED <<entry, err, u_irrep, coreVars, callerVars>>

u6_conj == AdapterConj("sd")

u10_conj == AdapterConj("pf")

\* one test of `while len(su4_irrep) >= 4` and, if it holds, one iteration
AdapterSimplify(e) ==
    /\ pc = "u_simplify" /\ entry = e
    /\ IF Len(su4_irrep) >= 4
       THEN /\ su4_irrep' = StripLast(su4_irrep)
            /\ pc' = pc
       ELSE /\ pc' = "u_pad"
            /\ UNCHANGED su4_irrep
    /\ UNCHANGED <<entry, err, u_irrep, current, coreVars, callerVars>>

u6_simplify == AdapterSimplify("sd")

u10_simplify == AdapterSimplify("pf")

\* padding, the return of the adapter and the caller's call of the core
\* with the returned (f1,f2,f3,f4)
AdapterReturn(e) ==
    /\ pc = "u_pad" /\ entry = e
    /\ su4_irrep' = PadTo4(su4_irrep)
    /\ f' = PadTo4(su4_irrep)
    /\ pc' = "core_validate"
    /\ UNCHANGED <<entry, err, u_irrep, current, derivedVars, loopVars,
                   frameVars, callerVars>>

u6_return == AdapterReturn("sd")

u10_return == AdapterReturn("pf")

\* --------------------------------------------------------------- core
\* racah_su4_to_st, lines 44-46: the tableau check
CoreValidate ==
    /\ pc = "core_validate"
    /\ IF ValidOrder(f[1], f[2], f[3], f[4])
       THEN /\ pc' = "core_derive"
            /\ err' = err
       ELSE /\ pc' = "done"
            /\ err' = "ValueError"
    /\ UNCHANGED <<entry, adapterVars, coreVars, callerVars>>

\* lines 48-90 and 116-117: derived coordinates, the info row, the parity
\* class, the empty table; then the first test of the outer/inner range
CoreDerive ==
    /\ pc = "core_derive"
    /\ LET c == Coords(f[1], f[2], f[3], f[4])
           mx == c.max_st
           mn == c.min_st
       IN  /\ alpha' = c.alpha /\ beta' = c.beta /\ gamma' = c.gamma
           /\ p1' = c.p1 /\ p2' = c.p2 /\ p3' = c.p3
           /\ max_st' = mx
           /\ SU4_irrep' = Append(SU4_irrep, InfoRow(f[1], f[2], f[3], f[4]))
           /\ min_st' = mn
           /\ ST_irreps' = <<>>
           /\ sum_dim_st' = 0
           /\ IF mn = 0
              THEN /\ S' = IntLo(mn) /\ T' = IntLo(mn)
                   /\ pc' = IF IntLo(mn) < IntStop(mx) THEN "core_loop"
                                                       ELSE "core_frames"
              ELSE /\ S' = HalfLo(mn) /\ T' = HalfLo(mn)
                   /\ pc' = IF HalfLo(mn) < HalfStop(mx) THEN "core_loop"
                                                         ELSE "core_frames"
    /\ UNCHANGED <<entry, err, adapterVars, f, frameVars, callerVars>>

\* variant: T is the outer loop and S the inner one
Advance_Swapped(lo, stop, step) ==
    IF S + step < stop
    THEN S' = S + step /\ T' = T /\ pc' = pc
    ELSE /\ S' = lo
         /\ T' = T + step
         /\ pc' = IF T + step < stop THEN pc ELSE "core_frames"

\* advance of the nested range loops after the body ran for (S,T)
Advance(lo, stop, step) ==
    IF T + step < stop
    THEN T' = T + step /\ S' = S /\ pc' = pc
    ELSE /\ T' = lo
         /\ S' = S + step
         /\ pc' = IF S + step < stop THEN pc ELSE "core_frames"

\* lines 119-126: one pair (S,T) of the integer branch
CoreLoopInt ==
    /\ pc = "core_loop" /\ min_st = 0
    /\ LET st == IntBody(p1, p2, p3, S, T,
                         [rows |-> ST_irreps, sum |-> sum_dim_st])
       IN  ST_irreps' = st.rows /\ sum_dim_st' = st.sum
    /\ Advance(IntLo(min_st), IntStop(max_st), 1)
    /\ UNCHANGED <<entry, err, adapterVars, f, derivedVars, frameVars,
                   callerVars>>

\* lines 127-135: one pair (S,T) of the half-integer branch
CoreLoopHalf ==
    /\ pc = "core_loop" /\ min_st # 0
    /\ LET st == HalfBody(p1, p2, p3, S, T,
                          [rows |-> ST_irreps, sum |-> sum_dim_st])
       IN  ST_irreps' = st.rows /\ sum_dim_st' = st.sum
    /\ Advance(HalfLo(min_st), HalfStop(max_st), 2)
    /\ UNCHANGED <<entry, err, adapterVars, f, derivedVars, frameVars,
                   callerVars>>

\* lines 138-152: the two DataFrames are built; with verbose they are shown
\* with display(), a NameError where that name is not defined; then they
\* are returned
CoreFrames ==
    /\ pc = "core_frames"
    /\ su4_df' = SU4_irrep
    /\ irreps_df' = ST_irreps
    /\ built' = TRUE
    /\ dim_checked' = dim_checked
    /\ err' = IF verbose /\ ~display_defined THEN "NameError" ELSE err
    /\ pc' = "done"
    /\ UNCHANGED <<entry, adapterVars, f, derivedVars, loopVars, callerVars>>

\* run_custom lines 283-292, run_custom_sd / run_custom_pf lines 219-228 /
\* 254-263: the total and the table are printed once the core returned
cli_render ==
    /\ pc = "done" /\ entry \in {"su4", "sd", "pf"} /\ err = "none"
    /\ rendered' = TRUE
    /\ pc' = "rendered"
    /\ UNCHANGED <<entry, err, adapterVars, coreVars, verbose,
                   display_defined, argc, exit_code, legacy_ret, dim_ret,
                   batchVars>>

\* variant: main reports success whatever happened
main_return_Zero ==
    /\ entry \in {"su4", "sd", "pf"}
    /\ \/ pc = "rendered" /\ exit_code' = 0
       \/ pc = "done" /\ err # "none" /\ exit_code' = 0
    /\ pc' = "exited"
    /\ UNCHANGED <<entry, err, adapterVars, coreVars, verbose,
                   display_defined, argc, rendered, legacy_ret, dim_ret,
                   batchVars>>

\* main, lines 370-410: the exit status of a custom mode.  run_custom_sd /
\* run_custom_pf return False on a SymmetryError (status 1) and True after
\* rendering (status 0); any other exception reaches `except Exception`
\* (status 1).  run_custom returns after rendering (status 0).
main_return ==
    /\ entry \in {"su4", "sd", "pf"}
    /\ \/ pc = "rendered" /\ exit_code' = 0
       \/ pc = "done" /\ err # "none" /\ exit_code' = 1
    /\ pc' = "exited"
    /\ UNCHANGED <<entry, err, adapterVars, coreVars, verbose,
                   display_defined, argc, rendered, legacy_ret, dim_ret,
                   batchVars>>

\* RacahSU4toST(f1,f2,f3,f4), lines 171-173: the legacy entry point calls the
\* core with verbose=True; whether `display` resolves depends on the
\* interpreter the caller runs (IPython/Jupyter define it, python does not)
RacahSU4toST ==
    /\ pc = "start"
    /\ \E a \in FRange, b \in FRange, c \in FRange, d \in FRange :
          f' = <<a, b, c, d>>
    /\ \E d \in BOOLEAN : display_defined' = d
    /\ entry' = "legacy"
    /\ verbose' = TRUE
    /\ pc' = "core_validate"
    /\ UNCHANGED <<err, adapterVars, derivedVars, loopVars, frameVars,
                   argc, rendered, exit_code, legacy_ret, dim_ret,
                   batchVars>>

\* RacahSU4toST, lines 173-176: irreps_df is returned; a ValueError is
\* printed and the process ends with sys.exit(1); any other exception is
\* not caught and reaches the caller
RacahSU4toST_return ==
    /\ pc = "done" /\ entry = "legacy"
    /\ \/ err = "none" /\ legacy_ret' = <<irreps_df>> /\ pc' = "returned"
          /\ UNCHANGED exit_code
       \/ err = "ValueError" /\ exit_code' = 1 /\ pc' = "exited"
          /\ UNCHANGED legacy_ret
       \/ err \notin {"none", "ValueError"} /\ pc' = "raised"
          /\ UNCHANGED <<exit_code, legacy_ret>>
    /\ UNCHANGED <<entry, err, adapterVars, coreVars, verbose,
                   display_defined, argc, rendered, dim_ret, batchVars>>

\* the steps of a call that has been started
Run ==
    \/ u6_validate \/ u10_validate
    \/ u6_conj \/ u10_conj
    \/ u6_simplify \/ u10_simplify
    \/ u6_return \/ u10_return
    \/ CoreValidate \/ CoreDerive \/ CoreLoopInt \/ CoreLoopHalf \/ CoreFrames
    \/ cli_render \/ main_return

Next == run_custom \/ main_bad_count \/ run_custom_sd \/ run_custom_pf \/ Run

Spec == Init /\ [][Next]_vars

\* the program is sequential: a call that has been started keeps running
\* until it returns or raises
FairSpec == Spec /\ WF_vars(Run)

\* the labels get_su4_dimension is called on
DimLabels == {<<3 * k, 2 * k, k, 0>> : k \in 0..MaxK}

\* a caller of get_su4_dimension(f1,f2,f3,f4), lines 211-214
get_su4_dimension_call ==
    /\ pc = "start"
    /\ \E l \in DimLabels :
          LET r == get_su4_dimension(l[1], l[2], l[3], l[4])
          IN  f' = l /\ err' = r.err /\ dim_ret' = r.value
    /\ entry' = "dimension"
    /\ pc' = "dim_done"
    /\ UNCHANGED <<adapterVars, derivedVars, loopVars, frameVars, verbose,
                   display_defined, argc, rendered, exit_code, legacy_ret,
                   batchVars>>

DimNext == get_su4_dimension_call

DimSpec == Init /\ [][DimNext]_vars

\* the labels a batch may hold, invalid ones included (f4 is 0)
BatchLabels == {<<a, b, c, 0>> : a \in 0..MaxB, b \in 0..MaxB, c \in 0..MaxB}

RECURSIVE SeqsUpTo(_, _)
\* the sequences over D of length at most n
SeqsUpTo(D, n) ==
    IF n = 0 THEN {<<>>}
    ELSE LET shorter == SeqsUpTo(D, n - 1)
         IN  shorter \cup {Append(q, x) : q \in {r \in shorter : Len(r) = n - 1},
                                          x \in D}

BatchLists == SeqsUpTo(BatchLabels, MaxBatch)

\* export_su4_with_labels, lines 36-47 and 50-57: "ValueError" for a label
\* the function itself or the core rejects, else the dict of the four file
\* paths, which are determined by the tag f1_f2_f3_f4
export_su4_with_labels(f1, f2, f3, f4) ==
    IF ~(f1 >= f2 /\ f2 >= f3 /\ f3 >= f4) THEN [err |-> "ValueError", files |-> <<>>]
    ELSE IF ~ValidOrder(f1, f2, f3, f4) THEN [err |-> "ValueError", files |-> <<>>]
    ELSE [err |-> "none",
          files |-> [su4_csv |-> <<"su4_representation", f1, f2, f3, f4, "csv">>,
                     st_csv |-> <<"su4_branching_rules", f1, f2, f3, f4, "csv">>,
                     su4_tex |-> <<"su4_representation", f1, f2, f3, f4, "tex">>,
                     st_tex |-> <<"su4_branching_rules", f1, f2, f3, f4, "tex">>]]

\* export_multiple_representations, lines 143-145: the call
export_multiple_representations ==
    /\ pc = "start"
    /\ \E l \in BatchLists : irrep_list' = l
    /\ results' = <<>> /\ successful' = 0 /\ failed' = 0
    /\ batch_i' = 0 /\ outcomes' = <<>>
    /\ entry' = "batch"
    /\ pc' = "batch_loop"
    /\ UNCHANGED <<err, adapterVars, coreVars, verbose, display_defined, argc,
                   rendered, exit_code, legacy_ret, dim_ret>>

\* variant: an export that raises ends the loop
batch_item_Abort ==
    /\ pc = "batch_loop" /\ batch_i < Len(irrep_list)
    /\ LET lab == irrep_list[batch_i + 1]
           r == export_su4_with_labels(lab[1], lab[2], lab[3], lab[4])
       IN  \/ /\ r.err = "none"
              /\ results' = [k \in DOMAIN results \cup {lab} |->
                                IF k = lab THEN r.files ELSE results[k]]
              /\ successful' = successful + 1
              /\ outcomes' = Append(outcomes, "ok")
              /\ batch_i' = batch_i + 1
              /\ UNCHANGED failed
           \/ /\ failed' = failed + 1
              /\ outcomes' = Append(outcomes, "failed")
              /\ batch_i' = Len(irrep_list)
              /\ UNCHANGED <<results, successful>>
    /\ UNCHANGED <<pc, entry, err, adapterVars, coreVars, verbose,
                   display_defined, argc, rendered, exit_code, legacy_ret,
                   dim_ret, irrep_list>>

\* lines 151-166: one item of the loop.  The export returns the files, or
\* raises: the ValueError of an invalid label, or an error of the file
\* system while the four files are written; `except Exception` takes both.
batch_item ==
    /\ pc = "batch_loop" /\ batch_i < Len(irrep_list)
    /\ LET lab == irrep_list[batch_i + 1]
           r == export_su4_with_labels(lab[1], lab[2], lab[3], lab[4])
       IN  \/ /\ r.err = "none"
              /\ results' = [k \in DOMAIN results \cup {lab} |->
                                IF k = lab THEN r.files ELSE results[k]]
              /\ successful' = successful + 1
              /\ outcomes' = Append(outcomes, "ok")
              /\ UNCHANGED failed
           \/ /\ failed' = failed + 1
              /\ outcomes' = Append(outcomes, "failed")
              /\ UNCHANGED <<results, successful>>
    /\ batch_i' = batch_i + 1
    /\ UNCHANGED <<pc, entry, err, adapterVars, coreVars, verbose,
                   display_defined, argc, rendered, exit_code, legacy_ret,
                   dim_ret, irrep_list>>

\* lines 168-173: the loop is over and results is returned
batch_return ==
    /\ pc = "batch_loop" /\ batch_i = Len(irrep_list)
    /\ pc' = "batch_done"
    /\ UNCHANGED <<entry, err, adapterVars, coreVars, callerVars>>

BatchNext == export_multiple_representations \/ batch_item \/ batch_return

BatchSpec == Init /\ [][BatchNext]_vars

\* A process that calls the legacy entry point
LegacyNext ==
    \/ RacahSU4toST
    \/ CoreValidate \/ CoreDerive \/ CoreLoopInt \/ CoreLoopHalf \/ CoreFrames
    \/ RacahSU4toST_return

LegacySpec == Init /\ [][LegacyNext]_vars

\* ------------------------------------------------------------ properties
RECURSIVE SumDim(_)
\* sum of the 'dim (S,T)' column
SumDim(rows) == IF rows = <<>> THEN 0 ELSE rows[1].dim + SumDim(Tail(rows))

CoreCalled == Len(f) = 4

Ordered == f[1] >= f[2] /\ f[2] >= f[3] /\ f[3] >= f[4]

Admissible == CoreCalled /\ Ordered /\ f[4] >= 0

Returned == pc = "done" /\ err = "none" /\ built

\* C1: for every admissible label the core returns (no error), and the sum
\* of the dim column equals the dimension of the info table, which is the
\* closed-form product divided by 12 with nothing discarded.
C1_DimensionConservation ==
    (pc = "done" /\ Admissible) =>
        /\ Returned
        /\ SumDim(irreps_df) = su4_df[1].dimension
        /\ 12 * SumDim(irreps_df) = dimsu4Num(f[1], f[2], f[3], f[4])

C1_Witness ==
    /\ Returned /\ f = <<4, 2, 1, 0>>
    /\ Len(irreps_df) > 1
    /\ SumDim(irreps_df) = su4_df[1].dimension

\* C2: for every admissible label every row of the branching table, at any
\* point of the enumeration and in the returned table, has mult > 0.
C2_PositiveMultiplicity ==
    Admissible =>
        /\ \A i \in 1..Len(ST_irreps) : ST_irreps[i].mult > 0
        /\ \A i \in 1..Len(irreps_df) : irreps_df[i].mult > 0

C2_Witness ==
    /\ Returned /\ Admissible /\ min_st = 1 /\ Len(irreps_df) >= 3
    /\ Len(irreps_df) < ((max_st + 1) \div 2) * ((max_st + 1) \div 2)

\* C3: for every admissible label every S and T in the table is >= 0 and
\* <= max(p1,p2), and all of them are integers when f1+f2-f3-f4 is even and
\* half-integers when it is odd (doubled values: even resp. odd).
C3_RangeAndParity ==
    Admissible =>
        LET d == f[1] + f[2] - f[3] - f[4]
            cap == Max(d, f[1] - f[2] + f[3] - f[4])
            ok(r) == /\ r.Spin >= 0 /\ r.Isospin >= 0
                     /\ r.Spin <= cap /\ r.Isospin <= cap
                     /\ r.Spin % 2 = d % 2 /\ r.Isospin % 2 = d % 2
                     /\ (d % 2 = 1 => r.Spin >= 1 /\ r.Isospin >= 1)
        IN  /\ \A i \in 1..Len(ST_irreps) : ok(ST_irreps[i])
            /\ \A i \in 1..Len(irreps_df) : ok(irreps_df[i])

C3_Witness ==
    /\ Returned /\ Admissible /\ (f[1] + f[2] - f[3] - f[4]) % 2 = 1
    /\ Len(irreps_df) >= 2
    /\ \E i \in 1..Len(irreps_df) : irreps_df[i].Spin = max_st

\* C4: the core raises the invalid-tableau ValueError exactly when the label
\* is not non-increasing, and then nothing has been derived or tabulated.
C4_InvalidTableau ==
    (CoreCalled /\ pc # "core_validate") =>
        /\ (err = "ValueError") <=> ~Ordered
        /\ (err = "ValueError") =>
              /\ pc \in {"done", "exited"} /\ ~built
              /\ SU4_irrep = <<>> /\ ST_irreps = <<>>
              /\ su4_df = <<>> /\ irreps_df = <<>>
              /\ alpha = 0 /\ beta = 0 /\ gamma = 0
              /\ p1 = 0 /\ p2 = 0 /\ p3 = 0

C4_Witness == pc = "done" /\ f = <<1, 2, 0, 0>> /\ err = "ValueError"

\* C5: a non-increasing label whose last entry is negative is reported as
\* invalid by the core, by validate_young_tableau and by get_su4_dimension.
C5_NegativeRejected ==
    (CoreCalled /\ pc = "done" /\ Ordered /\ f[4] < 0) =>
        /\ err = "ValueError"
        /\ ~validate_young_tableau(f[1], f[2], f[3], f[4])
        /\ get_su4_dimension(f[1], f[2], f[3], f[4]).err = "ValueError"

\* C6: when the core returns its tables, the summed row dimension has been
\* compared with the dimension of the info table (a mismatch would have
\* raised instead of returning).
C6_DimensionChecked == Returned => dim_checked

\* C7 as stated: (2,1,1,0) gives alpha,beta,gamma = 1,0,1, p = (1,1,0),
\* dimension 20, integer pairs with S,T <= 1 and row dims summing to 20.
C7_Stated ==
    (pc = "done" /\ f = <<2, 1, 1, 0>>) =>
        /\ Returned
        /\ alpha = 1 /\ beta = 0 /\ gamma = 1
        /\ p1 = 2 * 1 /\ p2 = 2 * 1 /\ p3 = 0
        /\ su4_df[1].dimension = 20
        /\ \A i \in 1..Len(irreps_df) :
              /\ irreps_df[i].Spin \in {0, 2}
              /\ irreps_df[i].Isospin \in {0, 2}
        /\ SumDim(irreps_df) = 20

\* C7 amended: the same with dimension 15 and row dims summing to 15.
C7_Label2110 ==
    (pc = "done" /\ f = <<2, 1, 1, 0>>) =>
        /\ Returned
        /\ alpha = 1 /\ beta = 0 /\ gamma = 1
        /\ p1 = 2 * 1 /\ p2 = 2 * 1 /\ p3 = 0
        /\ su4_df[1].alpha = 1 /\ su4_df[1].beta = 0 /\ su4_df[1].gamma = 1
        /\ su4_df[1].p1 = 2 /\ su4_df[1].p2 = 2 /\ su4_df[1].p3 = 0
        /\ su4_df[1].dimension = 15
        /\ \A i \in 1..Len(irreps_df) :
              /\ irreps_df[i].Spin \in {0, 2}
              /\ irreps_df[i].Isospin \in {0, 2}
        /\ SumDim(irreps_df) = 15

C7_Witness ==
    /\ Returned /\ f = <<2, 1, 1, 0>> /\ entry = "su4"
    /\ Len(irreps_df) = 3 /\ irreps_df[3].cum = 15

\* C8: (0,0,0,0) gives dimension 1 and the single row S=0, T=0, mult 1,
\* dim 1, cumulative dim 1.
C8_TrivialIrrep ==
    (pc = "done" /\ f = <<0, 0, 0, 0>>) =>
        /\ Returned
        /\ su4_df[1].dimension = 1
        /\ irreps_df = <<[Spin |-> 0, Isospin |-> 0, mult |-> 1, dim |-> 1,
                          cum |-> 1]>>

C8_Witness ==
    /\ Returned /\ f = <<0, 0, 0, 0>> /\ entry = "su4" /\ Len(irreps_df) = 1

\* C9: a label and the label with k subtracted from every entry (k up to
\* f4) give the same dimension, Casimir value, (p1,p2,p3) and rows.
C9_ShiftInvariance ==
    (Returned /\ Admissible) =>
        \A k \in 1..f[4] :
            LET g == [i \in 1..4 |-> f[i] - k]
                info == InfoRow(g[1], g[2], g[3], g[4])
            IN  /\ ValidOrder(g[1], g[2], g[3], g[4])
                /\ info.dimension = su4_df[1].dimension
                /\ info.casimir = su4_df[1].casimir
                /\ info.p1 = su4_df[1].p1
                /\ info.p2 = su4_df[1].p2
                /\ info.p3 = su4_df[1].p3
                /\ Enumerate(g[1], g[2], g[3], g[4]) = irreps_df

C9_Witness ==
    /\ Returned /\ f = <<4, 3, 2, 2>> /\ Len(irreps_df) >= 2
    /\ Enumerate(2, 1, 0, 0) = irreps_df

\* the conjugate partition: part j counts the entries of u that are >= j
ConjugatePartition(u) ==
    [j \in 1..u[1] |-> Cardinality({i \in 1..Len(u) : u[i] >= j})]

\* the conjugate, reduced by its 4th part when it has one, padded to 4
ExpectedSU4(u) ==
    LET c == ConjugatePartition(u)
    IN  IF Len(c) = 4
        THEN <<c[1] - c[4], c[2] - c[4], c[3] - c[4], 0>>
        ELSE [i \in 1..4 |-> IF i <= Len(c) THEN c[i] ELSE 0]

AdapterEntry == entry \in {"sd", "pf"}

\* a non-negative, non-increasing occupation label with first entry <= 4
PauliLabel ==
    /\ AdapterEntry
    /\ \A i \in 1..Len(u_irrep) : u_irrep[i] >= 0
    /\ \A i \in 1..(Len(u_irrep) - 1) : u_irrep[i] >= u_irrep[i+1]
    /\ u_irrep[1] <= 4

C10_AdapterSafe ==
    PauliLabel =>
        /\ err = "none"
        /\ CoreCalled =>
              /\ f = ExpectedSU4(u_irrep)
              /\ f[1] >= f[2] /\ f[2] >= f[3] /\ f[3] >= f[4] /\ f[4] = 0

\* C10: on such a label the adapter terminates, returns the reduced and
\* padded conjugate partition, a label with f1>=f2>=f3>=f4=0, and the core
\* does not raise the invalid-tableau error on it.
C10_AdapterOutput ==
    /\ []C10_AdapterSafe
    /\ (PauliLabel /\ pc = "u_validate") ~> (PauliLabel /\ pc = "done" /\ Returned)

C10_Witness ==
    /\ pc = "core_validate" /\ entry = "pf"
    /\ u_irrep[1] = 4 /\ u_irrep[7] = 4 /\ u_irrep[8] = 2
    /\ f = ExpectedSU4(u_irrep) /\ f[1] = 3

C12_Casimir ==
    CoreCalled =>
        LET r == get_casimir_su4(f[1], f[2], f[3], f[4])
            a == f[1] - f[2]
            b == f[2] - f[3]
            c == f[3] - f[4]
        IN  IF Ordered
            THEN /\ r.err = "none" /\ ~r.none
                 /\ r.value = 3*a*(a+4) + 4*b*(b+4) + 3*c*(c+4) + 4*b*(a+c) + 2*a*c
                 /\ su4_df # <<>> => r.value = su4_df[1].casimir
            ELSE r.err = "ValueError"
\* C13: once the legacy entry point is over, for an admissible label it has
\* returned exactly the table the core built, and for a label that is not
\* non-increasing nothing was raised to the caller: the process ended with
\* exit status 1.
C13_LegacyEntry ==
    (entry = "legacy" /\ pc \in {"returned", "exited", "raised"}) =>
        /\ Admissible =>
              /\ pc = "returned"
              /\ legacy_ret = <<Enumerate(f[1], f[2], f[3], f[4])>>
        /\ ~Ordered =>
              /\ pc = "exited" /\ exit_code = 1 /\ legacy_ret = <<>>

CliEntry == entry \in {"su4", "sd", "pf"}

\* C14 as stated: --custom-su4 with a number of integers other than 3 or 4
\* makes main return 1 without a call of the core; in every custom mode the
\* status is 1 when the adapter or the core rejected the label and 0 exactly
\* when a table was computed and rendered.
C14_Stated ==
    (CliEntry /\ pc = "exited") =>
        /\ (entry = "su4" /\ argc \notin {3, 4}) =>
              (exit_code = 1 /\ ~CoreCalled)
        /\ err # "none" => exit_code = 1
        /\ exit_code = 0 <=> (built /\ rendered)

\* C14: --custom-su4 with 1, 2 or more than 4 integers makes main return 1
\* without a call of the core, and with no integer the argument parser ends
\* the process with status 2, the core not called either; with 3 integers f4
\* is 0; in every custom mode the status is 1 when the adapter or the core
\* rejected the label and 0 exactly when a table was computed and rendered;
\* no status is set before the process ends.
C14_ExitStatus ==
    /\ (pc # "exited") => exit_code = 0 - 1
    /\ rendered => (built /\ err = "none")
    /\ (CliEntry /\ pc = "exited") =>
        /\ (entry = "su4" /\ argc \notin {3, 4}) =>
              /\ ~CoreCalled /\ ~built /\ ~rendered
              /\ exit_code = IF argc >= 1 THEN 1 ELSE 2
        /\ (entry = "su4" /\ argc = 3) => f[4] = 0
        /\ (entry = "su4" /\ argc \in {3, 4}) => CoreCalled
        /\ err # "none" => exit_code = 1
        /\ exit_code = 0 <=> (built /\ rendered)
        /\ exit_code \in {0, 1, 2}

C14_Witness ==
    /\ pc = "exited" /\ entry = "su4" /\ argc = 3 /\ f = <<2, 1, 1, 0>>
    /\ rendered /\ exit_code = 0

\* the pair (S,T) the loop is at, in doubled units
CurS == IF min_st = 0 THEN 2 * S ELSE S
CurT == IF min_st = 0 THEN 2 * T ELSE T

\* the (w1,w2) arguments of the three WTS calls of Multi, doubled
WtsCalls ==
    {<<p1 + Abs(p3), p1 - Abs(p3)>>, <<p1 + p2 + 2, p1 - p2 - 2>>,
     <<p2 + Abs(p3) - 2, p2 - Abs(p3) - 2>>}

\* C15: at every pair (S,T) the loops visit for an admissible label, the
\* kernel is a non-negative integer (even and >= 0 in doubled units), the
\* term that is halved is even in each WTS call that evaluates it, and the
\* dim of the pair is an integer, so int() discards nothing.
C15_KernelInteger ==
    (Admissible /\ pc = "core_loop") =>
        LET m == Multi(p1, p2, p3, CurT, CurS)
        IN  /\ m >= 0 /\ m % 2 = 0
            /\ 2 * IntOf(m) = m
            /\ dimST(CurS, CurT, m) % 2 = 0
            /\ CurS >= 0 /\ CurT >= 0 /\ CurS <= Max(p1, p2) /\ CurT <= Max(p1, p2)
            /\ CurS % 2 = p1 % 2 /\ CurT % 2 = p1 % 2
            /\ \A w \in WtsCalls :
                  (2*CurT <= w[1] + w[2] /\ 2*CurS <= w[1] + w[2] /\ w[1] >= w[2])
                  => Q(CurT + CurS - Abs(CurT - CurS) - w[1] + w[2] + 2) % 2 = 0

C15_Witness ==
    /\ pc = "core_loop" /\ Admissible /\ f = <<2, 1, 0, 0>>
    /\ CurS = 1 /\ CurT = 1
    /\ Multi(p1, p2, p3, CurT, CurS) = 2

\* C16: for every admissible label the product is positive and divisible by
\* 12, and get_su4_dimension returns exactly product/12, which is also the
\* int(dimsu4(...)) of the info table.
C16_ExactDimension ==
    (entry = "dimension" /\ pc = "dim_done" /\ Admissible) =>
        LET d == BigDivMod(BigProduct(f[1], f[2], f[3], f[4]), 12)
        IN  /\ err = "none"
            /\ d.r = 0 /\ d.q # <<>>
            /\ dim_ret = d.q
            /\ Float64Dimension(f[1], f[2], f[3], f[4]) = d.q

\* C17: once the coordinates of an admissible label are derived, alpha, beta
\* and gamma are non-negative, p1 >= p2 >= |p3|, the doubled p1, p2, p3 are
\* integers of one parity, and the loop cap max_st is p1.
C17_Coordinates ==
    (Admissible /\ SU4_irrep # <<>>) =>
        /\ alpha = f[1] - f[2] /\ beta = f[2] - f[3] /\ gamma = f[3] - f[4]
        /\ alpha >= 0 /\ beta >= 0 /\ gamma >= 0
        /\ p1 >= p2 /\ p2 >= Abs(p3)
        /\ p1 = f[1] + f[2] - f[3] - f[4]
        /\ p1 = alpha + 2 * beta + gamma
        /\ p2 = alpha + gamma /\ p3 = alpha - gamma
        /\ p1 % 2 = p2 % 2 /\ p2 % 2 = p3 % 2
        /\ max_st = p1

C17_Witness ==
    /\ pc = "core_loop" /\ f = <<2, 2, 1, 0>>
    /\ p1 = 3 /\ p2 = 1 /\ p3 = 0 - 1 /\ max_st = 3

\* (S,T) of row a is before (S,T) of row b in the order S outer, T inner
LexBefore(a, b) ==
    a.Spin < b.Spin \/ (a.Spin = b.Spin /\ a.Isospin < b.Isospin)

RowsWellFormed(rows) ==
    \A i \in 1..Len(rows) :
        /\ rows[i].dim = (rows[i].Spin + 1) * (rows[i].Isospin + 1) * rows[i].mult
        /\ rows[i].cum = SumDim(SubSeq(rows, 1, i))
        /\ i > 1 => LexBefore(rows[i-1], rows[i])

C19_ExchangeSymmetry ==
    /\ (Admissible /\ pc = "core_loop") =>
          Multi(p1, p2, p3, CurT, CurS) = Multi(p1, p2, p3, CurS, CurT)
    /\ (Returned /\ Admissible) =>
          \A i \in 1..Len(irreps_df) :
              \E j \in 1..Len(irreps_df) :
                  /\ irreps_df[j].Spin = irreps_df[i].Isospin
                  /\ irreps_df[j].Isospin = irreps_df[i].Spin
                  /\ irreps_df[j].mult = irreps_df[i].mult
                  /\ irreps_df[j].dim = irreps_df[i].dim

C19_Witness ==
    /\ Returned /\ f = <<1, 1, 0, 0>>
    /\ \E i, j \in 1..Len(irreps_df) :
          /\ irreps_df[i].Spin = 0 /\ irreps_df[i].Isospin = 2
          /\ irreps_df[j].Spin = 2 /\ irreps_df[j].Isospin = 0
          /\ irreps_df[i].mult = irreps_df[j].mult

\* the items taken so far whose export returned
OkItems == {i \in 1..Len(outcomes) : outcomes[i] = "ok"}

\* C20: in a batch every item is taken whatever happened to the items
\* before it; successful and failed count the exports that returned and
\* that raised, so after the loop their sum is the length of irrep_list;
\* the keys of the returned dict are exactly the labels of the items whose
\* export returned, and a label that is invalid is never among them.
C20_BatchIsolation ==
    (entry = "batch") =>
        /\ Len(outcomes) = batch_i /\ batch_i <= Len(irrep_list)
        /\ successful = Cardinality(OkItems)
        /\ successful + failed = batch_i
        /\ DOMAIN results = {irrep_list[i] : i \in OkItems}
        /\ \A i \in 1..batch_i :
              ~ValidOrder(irrep_list[i][1], irrep_list[i][2],
                          irrep_list[i][3], irrep_list[i][4])
              => (outcomes[i] = "failed" /\ irrep_list[i] \notin DOMAIN results)
        /\ pc = "batch_done" =>
              /\ batch_i = Len(irrep_list)
              /\ successful + failed = Len(irrep_list)

C20_Witness ==
    /\ pc = "batch_done" /\ Len(irrep_list) = 2
    /\ irrep_list[1] = <<0, 1, 0, 0>>
    /\ irrep_list[2] = <<1, 0, 0, 0>>
    /\ outcomes = <<"failed", "ok">>
    /\ successful = 1 /\ failed = 1
    /\ DOMAIN results = {irrep_list[2]}

====
